---- MODULE Spec2Model ----
(***************************************************************************)
(* Client-side session and live-state synchronisation layer:               *)
(*   - the LiveQuery hooks useUserStats, useUserActivity, useChallenges    *)
(*     (fetch, then subscribe, then reconcile),                            *)
(*   - the StatsWriter useUpdateUserStats.updateStats,                     *)
(*   - the SessionManager AuthProvider.                                    *)
(* The remote store, its change feed and the remote auth service are the   *)
(* environment: every asynchronous call is split into the request, the     *)
(* remote's answer and the completion of the await on the client, and the  *)
(* completions interleave freely.                                          *)
(***************************************************************************)
EXTENDS Integers, Sequences, FiniteSets, TLC

\* ------------------------------------------------------------ bounds
MaxInflight == 2    \* queries of one hook instance awaiting completion
MaxEvents == 2      \* change events queued on the subscription
MaxActs == 2        \* rows ever inserted into user_activity
MaxCalls == 2       \* updateStats calls in one behaviour
MaxAuthEvents == 1  \* auth events raised outside this client in one behaviour
MaxHandlers == 1    \* handleAuthEvent invocations suspended at once
MaxOps == 1         \* context operations called in one behaviour

\* ------------------------------------------------------------ values
Users == {"u1", "u2"}
Null == "null"       \* no identity
NoVal == -1          \* a column that is null or missing
Hooks == {"stats", "activity", "challenges"}
StatFields ==
  {"portfolio_views", "followers", "rating", "loyalty_points", "projects_completed"}

\* `x || 0` of the stats mapping: a missing (or zero) column reads as 0.
OrZero(x) == IF x = NoVal THEN 0 ELSE x

\* useState<UserStats | null>(null): no record yet.
NoStats == [f \in StatFields |-> NoVal]

\* The all-zero record the hook falls back to.
ZeroStats == [f \in StatFields |-> 0]

\* The record setStats receives for a fetched row or an event's payload.new.
FillStats(row) == [f \in StatFields |-> OrZero(row[f])]

\* A row of user_stats: the five columns and the owner.
StatsRow(u, pv, fo, ra, lp, pc) ==
  [user_id |-> u, portfolio_views |-> pv, followers |-> fo, rating |-> ra,
   loyalty_points |-> lp, projects_completed |-> pc]

\* UPDATE user_stats SET <updates> on one row: the named columns are replaced.
ApplyUpdate(row, updates) ==
  [f \in DOMAIN row |-> IF f \in DOMAIN updates THEN updates[f] ELSE row[f]]

\* Partial records handed to updateStats (the empty one included).
SampleUpdates == { [f \in {} |-> 0], [f \in {"followers"} |-> 2] }

\* Changes other clients and triggers make to a row of user_stats.
SampleChanges ==
  { [f \in {"followers"} |-> 2], [f \in {"followers", "rating"} |-> 0] }

\* The table user_stats at start: one row per identity.
InitStatsTable ==
  [u \in Users |-> IF u = "u1" THEN StatsRow(u, 1, 1, NoVal, 1, 1)
                               ELSE StatsRow(u, 2, 0, 2, 1, NoVal)]

\* A row of profiles (the columns the code reads) and the AppUser built from
\* it: { ...profile, email }.
ProfileRow(u, r, a) == [id |-> u, name |-> "n", role |-> r, account_type |-> a]
EmailOf(u) == IF u = "u1" THEN "u1@mail" ELSE "u2@mail"
AppUser(profile, email) ==
  [id |-> profile.id, name |-> profile.name, role |-> profile.role,
   account_type |-> profile.account_type, email |-> email]

\* user = null: no identity.
NoUser == [id |-> Null, name |-> "", role |-> "", account_type |-> "", email |-> ""]

\* The other role: user.role === 'creator' ? 'member' : 'creator'.
Flip(r) == IF r = "creator" THEN "member" ELSE "creator"

\* The table profiles at start.
InitProfiles ==
  [u \in Users |-> IF u = "u1" THEN ProfileRow(u, "creator", "creator")
                               ELSE ProfileRow(u, "member", "member")]

\* The identity the SessionManager publishes for u.
Identity(u) == IF u = Null THEN NoUser ELSE AppUser(InitProfiles[u], EmailOf(u))

\* A row of user_activity; created_at grows with id.
ActivityRow(n, u) ==
  [id |-> n, user_id |-> u, action |-> "act", action_type |-> "update", created_at |-> n]

\* .limit(3) of fetchChallenges.
ChallengeLimit == 3

\* The table challenges: one row more than the limit, all of u1.  The last
\* row is not there at start ("absent").
ChallengeIds == 1 .. ChallengeLimit + 1
Owner(c) == "u1"
ChallengeRow(c, st) ==
  [id |-> c, user_id |-> Owner(c), title |-> "t", progress |-> 0, reward |-> "r",
   status |-> st]
InitChallengeTable ==
  [c \in ChallengeIds |-> IF c = ChallengeLimit + 1 THEN "absent" ELSE "active"]

\* What happens to row c of challenges: the last row is inserted, row 2 is
\* deleted, the others are completed.
ChangeType(c) ==
  CASE c = ChallengeLimit + 1 -> "INSERT"
    [] c = 2 -> "DELETE"
    [] OTHER -> "UPDATE"
StatusAfter(type) ==
  CASE type = "INSERT" -> "active"
    [] type = "DELETE" -> "absent"
    [] OTHER -> "completed"

\* The caps useUserActivity may be configured with (limit: number).
Limits == {0, 1, 2}

VARIABLES
  hook,             \* which LiveQuery instance this behaviour observes
  limit,            \* the cap useUserActivity was called with
  user,             \* AuthProvider's user, which useAuth() hands to the hooks
  dep,              \* the user?.id the effect last ran with ("unset": not yet)
  alive,            \* the consumer of the hook is mounted
  stats,            \* useUserStats state
  activities,       \* useUserActivity state
  challenges,       \* useChallenges state
  loading,          \* the hook's loading state
  error,            \* the hook's error state
  channels,         \* identities with a subscribed channel of this instance
  events,           \* change events sent on the channel, not yet delivered
  inflight,         \* queries issued by the instance, in issue order
  user_stats,       \* remote table user_stats: identity -> row
  user_activity,    \* remote table user_activity, newest row first
  challenge_table,  \* remote table challenges: id -> status
  upd,              \* the updateStats call in progress
  authLoading,      \* AuthProvider's loading
  mounted,          \* the flag of AuthProvider's effect
  session,          \* the remote auth service's session: its user or none
  authEvents,       \* auth events sent to the listener, not yet delivered
  handlers,         \* handleAuthEvent invocations suspended at an await
  init,             \* getInitialSession
  op,               \* the context operation in progress
  profiles,         \* remote table profiles: id -> row
  cleared,          \* history: a sign-out event's handling has cleared the
                    \* identity and no event carrying a session came after it
  emitted           \* history: auth events raised outside this client

dataVars == <<stats, activities, challenges>>
hookVars == <<hook, limit, user, dep, alive, loading, error, channels, events, inflight>>
liveVars == <<hookVars, dataVars>>
storeVars == <<user_stats, user_activity, challenge_table>>
authRest ==
  <<authLoading, mounted, authEvents, handlers, init, op, profiles, cleared, emitted>>
authVars == <<session, authRest>>
vars == <<liveVars, storeVars, upd, authVars>>

\* ------------------------------------------------------------ helpers
Min(a, b) == IF a < b THEN a ELSE b

RemoveAt(s, i) == SubSeq(s, 1, i - 1) \o SubSeq(s, i + 1, Len(s))

\* The first n elements of s: LIMIT n.
Take(s, n) == SubSeq(s, 1, Min(n, Len(s)))

\* s.slice(0, e): a negative e counts from the end of s.
Slice(s, e) == IF e < 0 THEN Take(s, Len(s) + e) ELSE Take(s, e)

\* The elements of a set of numbers in ascending order.
RECURSIVE SortedSeq(_)
SortedSeq(S) ==
  IF S = {} THEN <<>>
  ELSE LET m == CHOOSE x \in S : \A y \in S : x <= y
       IN <<m>> \o SortedSeq(S \ {m})

\* Events of one topic dropped from the queue (channel.unsubscribe()).
DropTopic(q, t) == SelectSeq(q, LAMBDA e : e.topic # t)

\* What the store sends to the instance's channel for a change of a row of u.
\* tag is history: the updateStats call that made the change (0: none).
Emit(q, u, type, new, tag) ==
  IF u \in channels
  THEN Append(q, [topic |-> u, type |-> type, hasNew |-> (type # "DELETE"), new |-> new,
                  tag |-> tag])
  ELSE q

\* The data of an answer that carries none.
NoRow == StatsRow(Null, NoVal, NoVal, NoVal, NoVal, NoVal)
NoData == IF hook = "stats" THEN NoRow ELSE <<>>

NoRes == [kind |-> "none", data |-> NoRow, message |-> "", isError |-> FALSE]
NoOutcome == [kind |-> "none", row |-> NoRow, message |-> ""]

\* No updateStats call yet.  seq (the number of calls so far), pre (the row
\* the update replaced) and delivered (the update's change event reached the
\* hook's callback) are history.
IdleUpd ==
  [phase |-> "idle", uid |-> Null, updates |-> [f \in {} |-> 0], res |-> NoRes,
   outcome |-> NoOutcome, seq |-> 0, pre |-> NoRow, delivered |-> FALSE]

\* No context operation yet.  calls (the number of operations called so
\* far) is history; alerted records alert(error.message).
NoOp ==
  [name |-> "none", pc |-> "idle", uid |-> Null, email |-> "", data |-> [f \in {} |-> ""],
   outcome |-> "none", alerted |-> FALSE, calls |-> 0]

\* The observed hook after its first render, before its effect has run, and
\* the store at start.
LiveAtMount ==
  /\ dep = "unset"
  /\ alive = TRUE
  /\ stats = NoStats
  /\ activities = <<>>
  /\ challenges = <<>>
  /\ loading = TRUE
  /\ error = Null
  /\ channels = {}
  /\ events = <<>>
  /\ inflight = <<>>
  /\ user_stats = InitStatsTable
  /\ user_activity = <<>>
  /\ challenge_table = InitChallengeTable
  /\ upd = IdleUpd

\* The SessionManager at rest: started up, nothing pending.
AuthQuiet ==
  /\ authLoading = FALSE
  /\ mounted = TRUE
  /\ session = user.id
  /\ authEvents = <<>>
  /\ handlers = <<>>
  /\ init = [pc |-> "done", sid |-> Null]
  /\ op = NoOp
  /\ profiles = InitProfiles
  /\ cleared = FALSE
  /\ emitted = 0

InitHook ==
  /\ user \in {Identity(u) : u \in Users \cup {Null}}
  /\ LiveAtMount
  /\ AuthQuiet

Init ==
  /\ hook \in Hooks
  /\ limit \in IF hook = "activity" THEN Limits ELSE {1}
  /\ InitHook

\* ------------------------------------------------------------ environment
\* The hook renders with identity u and React runs its effect: at mount with
\* the identity of the first render, later when user?.id has changed (the
\* session has become that of u and the SessionManager has published it).
Rerender(u) ==
  /\ alive
  /\ IF dep = "unset" THEN u = user.id ELSE u # dep
  /\ Len(inflight) < MaxInflight
  /\ user' = Identity(u)
  /\ session' = u
  /\ dep' = u

\* A cleanup that leaves the channel subscribed.
Cleanup_Leaky(ch, d) == ch

\* The effect's cleanup: channel.unsubscribe().
Cleanup(ch, d) == ch \ {d}

\* The queries in flight when an effect run is torn down: they stay in flight.
TornDown(qs) ==
  [j \in 1 .. Len(qs) |-> [qs[j] EXCEPT !.live = FALSE, !.overtaken = FALSE]]

\* The queries in flight when the channel's callback runs: those of the
\* current effect run were issued before the event (history).
Overtaken(qs) == [j \in 1 .. Len(qs) |-> [qs[j] EXCEPT !.overtaken = qs[j].live]]

\* The consumer is discarded: React runs the last effect's cleanup.
Unmount ==
  /\ alive
  /\ alive' = FALSE
  /\ channels' = Cleanup(channels, dep)
  /\ events' = DropTopic(events, dep)
  /\ inflight' = TornDown(inflight)
  /\ UNCHANGED <<hook, limit, user, dep, loading, error>>
  /\ UNCHANGED <<dataVars, storeVars, upd>>
  /\ UNCHANGED authVars

\* SELECT * FROM user_activity WHERE user_id = u ORDER BY created_at DESC LIMIT n.
SelectActivity(u, n) == Take(SelectSeq(user_activity, LAMBDA r : r.user_id = u), n)

\* A fetchChallenges without .limit(3).
SelectChallenges_Unlimited(u) ==
  LET ids == SortedSeq({c \in ChallengeIds : Owner(c) = u /\ challenge_table[c] = "active"})
  IN [i \in 1 .. Len(ids) |-> ChallengeRow(ids[i], challenge_table[ids[i]])]

\* SELECT * FROM challenges WHERE user_id = u AND status = 'active' LIMIT 3
\* (the store returns the rows in id order).
SelectChallenges(u) ==
  LET ids == SortedSeq({c \in ChallengeIds : Owner(c) = u /\ challenge_table[c] = "active"})
      top == Take(ids, ChallengeLimit)
  IN [i \in 1 .. Len(top) |-> ChallengeRow(top[i], challenge_table[top[i]])]

\* The rows a query of the observed hook reads now.
QueryRows(u) ==
  CASE hook = "stats" -> user_stats[u]
    [] hook = "activity" -> SelectActivity(u, limit)
    [] OTHER -> SelectChallenges(u)

\* The store answers a query with the rows as they are now.
QueryAnswer(q) == [kind |-> "ok", data |-> QueryRows(q.uid)]

\* How the await of a query may end: with the store's answer once it has
\* answered, otherwise with a reported error or a failed transport (the
\* awaited call throws); neither carries rows.
Outcomes(q) ==
  IF q.phase = "replied" THEN {q.res}
  ELSE {[kind |-> k, data |-> NoData] : k \in {"error", "throw"}}

ServerReply(i) ==
  /\ i \in 1 .. Len(inflight)
  /\ inflight[i].phase = "sent"
  /\ inflight' = [inflight EXCEPT ![i] = [@ EXCEPT !.phase = "replied",
                                                !.res = QueryAnswer(inflight[i])]]
  /\ UNCHANGED <<hook, limit, user, dep, alive, loading, error, channels, events>>
  /\ UNCHANGED <<dataVars, storeVars, upd>>
  /\ UNCHANGED authVars

\* Another client or a trigger changes the row of u in user_stats.
RemoteChange(u, updates) ==
  /\ hook = "stats"
  /\ u \in channels => Len(events) < MaxEvents
  /\ LET new == ApplyUpdate(user_stats[u], updates)
     IN /\ new # user_stats[u]
        /\ user_stats' = [user_stats EXCEPT ![u] = new]
        /\ events' = Emit(events, u, "UPDATE", new, 0)
  /\ UNCHANGED <<hook, limit, user, dep, alive, loading, error, channels, inflight>>
  /\ UNCHANGED <<dataVars, user_activity, challenge_table, upd>>
  /\ UNCHANGED authVars

\* A row is inserted into user_activity for u.
InsertActivity(u) ==
  /\ hook = "activity"
  /\ Len(user_activity) < MaxActs
  /\ u \in channels => Len(events) < MaxEvents
  /\ LET new == ActivityRow(Len(user_activity) + 1, u)
     IN /\ user_activity' = <<new>> \o user_activity
        /\ events' = Emit(events, u, "INSERT", new, 0)
  /\ UNCHANGED <<hook, limit, user, dep, alive, loading, error, channels, inflight>>
  /\ UNCHANGED <<dataVars, user_stats, challenge_table, upd>>
  /\ UNCHANGED authVars

\* A row of challenges is inserted, updated or deleted.
ChallengeChange(c) ==
  /\ hook = "challenges"
  /\ challenge_table[c] = IF ChangeType(c) = "INSERT" THEN "absent" ELSE "active"
  /\ Owner(c) \in channels => Len(events) < MaxEvents
  /\ LET st == StatusAfter(ChangeType(c))
     IN /\ challenge_table' = [challenge_table EXCEPT ![c] = st]
        /\ events' = Emit(events, Owner(c), ChangeType(c), ChallengeRow(c, st), 0)
  /\ UNCHANGED <<hook, limit, user, dep, alive, loading, error, channels, inflight>>
  /\ UNCHANGED <<dataVars, user_stats, user_activity, upd>>
  /\ UNCHANGED authVars

\* ------------------------------------------------------------ useUserStats
\* The query a fetch function sends for identity u, awaiting its answer.
\* live is history: the effect run that issued the query has not been torn
\* down; so is overtaken: an event was delivered after the query was issued.
NewQuery(u) ==
  [uid |-> u, phase |-> "sent", live |-> TRUE, overtaken |-> FALSE,
   res |-> [kind |-> "none", data |-> NoData]]

\* useEffect(..., [user?.id]) for identity u: cleanup of the previous run,
\* then the body.
StatsEffect(u) ==
  /\ hook = "stats"
  /\ Rerender(u)
  /\ channels' = IF u = Null THEN Cleanup(channels, dep) ELSE Cleanup(channels, dep) \cup {u}
  /\ events' = DropTopic(events, dep)
  /\ IF u = Null
     THEN /\ loading' = FALSE
          /\ stats' = ZeroStats
          /\ inflight' = TornDown(inflight)
     ELSE /\ inflight' = Append(TornDown(inflight), NewQuery(u))
          /\ UNCHANGED <<stats, loading>>
  /\ UNCHANGED <<hook, limit, alive, error, activities, challenges>>
  /\ UNCHANGED <<storeVars, upd>>
  /\ UNCHANGED authRest

\* A fetchUserStats that surfaces a reported error instead of swallowing it.
StatsAfterFetch_Surfacing(res, st, er) ==
  CASE res.kind = "error" -> <<st, FALSE, "Failed to fetch stats">>
    [] res.kind = "ok" -> <<FillStats(res.data), FALSE, er>>
    [] OTHER -> <<ZeroStats, FALSE, er>>

\* What fetchUserStats leaves in <<stats, loading, error>> for an answer.
StatsAfterFetch(res, st, er) ==
  CASE res.kind = "error" -> <<ZeroStats, FALSE, Null>>
    [] res.kind = "ok" -> <<FillStats(res.data), FALSE, er>>
    [] OTHER -> <<ZeroStats, FALSE, er>>

\* The await in fetchUserStats completes.  React drops state updates of a
\* discarded consumer; nothing else guards them.
StatsFetchDone(i) ==
  /\ hook = "stats"
  /\ i \in 1 .. Len(inflight)
  /\ inflight' = RemoveAt(inflight, i)
  /\ IF alive
     THEN \E res \in Outcomes(inflight[i]) :
            LET r == StatsAfterFetch(res, stats, error)
            IN /\ stats' = r[1]
               /\ loading' = r[2]
               /\ error' = r[3]
     ELSE UNCHANGED <<stats, loading, error>>
  /\ UNCHANGED <<hook, limit, user, dep, alive, channels, events, activities, challenges>>
  /\ UNCHANGED <<storeVars, upd>>
  /\ UNCHANGED authVars

\* The postgres_changes callback of useUserStats.
StatsOnEvent(payload, st) == IF payload.hasNew THEN FillStats(payload.new) ELSE st

StatsEvent ==
  /\ hook = "stats"
  /\ events # <<>>
  /\ events' = Tail(events)
  /\ stats' = IF alive THEN StatsOnEvent(Head(events), stats) ELSE stats
  /\ inflight' = Overtaken(inflight)
  /\ upd' = IF Head(events).tag = upd.seq /\ upd.seq > 0
            THEN [upd EXCEPT !.delivered = TRUE] ELSE upd
  /\ UNCHANGED <<hook, limit, user, dep, alive, loading, error, channels>>
  /\ UNCHANGED <<activities, challenges, storeVars>>
  /\ UNCHANGED authVars

\* ------------------------------------------------------------ useUserActivity
\* useEffect(..., [user?.id, limit]).
ActivityEffect(u) ==
  /\ hook = "activity"
  /\ Rerender(u)
  /\ channels' = IF u = Null THEN Cleanup(channels, dep) ELSE Cleanup(channels, dep) \cup {u}
  /\ events' = DropTopic(events, dep)
  /\ IF u = Null
     THEN /\ loading' = FALSE
          /\ activities' = <<>>
          /\ inflight' = TornDown(inflight)
     ELSE /\ inflight' = Append(TornDown(inflight), NewQuery(u))
          /\ UNCHANGED <<activities, loading>>
  /\ UNCHANGED <<hook, limit, alive, error, stats, challenges>>
  /\ UNCHANGED <<storeVars, upd>>
  /\ UNCHANGED authRest

\* What a list fetch (fetchUserActivity, fetchChallenges) leaves in
\* <<list, loading, error>> for an answer.
ListAfterFetch(res, list, er) ==
  CASE res.kind = "error" -> <<<<>>, FALSE, Null>>
    [] res.kind = "ok" -> <<res.data, FALSE, er>>
    [] OTHER -> <<<<>>, FALSE, er>>

ActivityFetchDone(i) ==
  /\ hook = "activity"
  /\ i \in 1 .. Len(inflight)
  /\ inflight' = RemoveAt(inflight, i)
  /\ IF alive
     THEN \E res \in Outcomes(inflight[i]) :
            LET r == ListAfterFetch(res, activities, error)
            IN /\ activities' = r[1]
               /\ loading' = r[2]
               /\ error' = r[3]
     ELSE UNCHANGED <<activities, loading, error>>
  /\ UNCHANGED <<hook, limit, user, dep, alive, channels, events, stats, challenges>>
  /\ UNCHANGED <<storeVars, upd>>
  /\ UNCHANGED authVars

\* The INSERT callback: [payload.new, ...prev.slice(0, limit - 1)].
ActivityOnEvent(payload, prev, n) ==
  IF payload.hasNew THEN <<payload.new>> \o Slice(prev, n - 1) ELSE prev

ActivityEvent ==
  /\ hook = "activity"
  /\ events # <<>>
  /\ events' = Tail(events)
  /\ activities' = IF alive THEN ActivityOnEvent(Head(events), activities, limit)
                   ELSE activities
  /\ UNCHANGED <<hook, limit, user, dep, alive, loading, error, channels, inflight>>
  /\ UNCHANGED <<stats, challenges, storeVars, upd>>
  /\ UNCHANGED authVars

\* ------------------------------------------------------------ useChallenges
\* useEffect(..., [user?.id]).
ChallengesEffect(u) ==
  /\ hook = "challenges"
  /\ Rerender(u)
  /\ channels' = IF u = Null THEN Cleanup(channels, dep) ELSE Cleanup(channels, dep) \cup {u}
  /\ events' = DropTopic(events, dep)
  /\ IF u = Null
     THEN /\ loading' = FALSE
          /\ challenges' = <<>>
          /\ inflight' = TornDown(inflight)
     ELSE /\ inflight' = Append(TornDown(inflight), NewQuery(u))
          /\ UNCHANGED <<challenges, loading>>
  /\ UNCHANGED <<hook, limit, alive, error, stats, activities>>
  /\ UNCHANGED <<storeVars, upd>>
  /\ UNCHANGED authRest

ChallengesFetchDone(i) ==
  /\ hook = "challenges"
  /\ i \in 1 .. Len(inflight)
  /\ inflight' = RemoveAt(inflight, i)
  /\ IF alive
     THEN \E res \in Outcomes(inflight[i]) :
            LET r == ListAfterFetch(res, challenges, error)
            IN /\ challenges' = r[1]
               /\ loading' = r[2]
               /\ error' = r[3]
     ELSE UNCHANGED <<challenges, loading, error>>
  /\ UNCHANGED <<hook, limit, user, dep, alive, channels, events, stats, activities>>
  /\ UNCHANGED <<storeVars, upd>>
  /\ UNCHANGED authVars

\* The callback of the challenges channel: fetchChallenges() of the effect
\* run that subscribed, whatever the event.
ChallengesEvent ==
  /\ hook = "challenges"
  /\ events # <<>>
  /\ Len(inflight) < MaxInflight
  /\ events' = Tail(events)
  /\ inflight' = Append(Overtaken(inflight), NewQuery(Head(events).topic))
  /\ UNCHANGED <<hook, limit, user, dep, alive, loading, error, channels>>
  /\ UNCHANGED <<dataVars, storeVars, upd>>
  /\ UNCHANGED authVars

\* ------------------------------------------------------------ useUpdateUserStats
\* An updateStats without the identity check: with no identity it returns
\* quietly instead of throwing.
UpdateStatsCall_Unchecked(updates) ==
  /\ hook = "stats"
  /\ upd.phase \in {"idle", "done"}
  /\ upd.seq < MaxCalls
  /\ upd' = IF user.id = Null
            THEN [IdleUpd EXCEPT !.phase = "done", !.updates = updates,
                    !.seq = upd.seq + 1,
                    !.outcome = [kind |-> "resolved", row |-> NoRow, message |-> ""]]
            ELSE [IdleUpd EXCEPT !.phase = "sent", !.uid = user.id,
                    !.updates = updates, !.seq = upd.seq + 1]
  /\ UNCHANGED <<liveVars, storeVars>>
  /\ UNCHANGED authVars

\* An optimistic updateStats: it writes the submitted values into the mirror
\* before the store has answered.
UpdateStatsCall_Optimistic(updates) ==
  /\ hook = "stats"
  /\ upd.phase \in {"idle", "done"}
  /\ upd.seq < MaxCalls
  /\ upd' = IF user.id = Null
            THEN [IdleUpd EXCEPT !.phase = "done", !.updates = updates,
                    !.seq = upd.seq + 1,
                    !.outcome = [kind |-> "rejected", row |-> NoRow,
                                 message |-> "User not authenticated"]]
            ELSE [IdleUpd EXCEPT !.phase = "sent", !.uid = user.id,
                    !.updates = updates, !.seq = upd.seq + 1]
  /\ stats' = IF user.id = Null THEN stats ELSE ApplyUpdate(stats, updates)
  /\ UNCHANGED <<hookVars, activities, challenges, storeVars>>
  /\ UNCHANGED authVars

\* updateStats(updates) up to its await: without an identity it throws at
\* once, otherwise the UPDATE ... WHERE user_id = user.id is sent.
UpdateStatsCall(updates) ==
  /\ hook = "stats"
  /\ upd.phase \in {"idle", "done"}
  /\ upd.seq < MaxCalls
  /\ upd' = IF user.id = Null
            THEN [IdleUpd EXCEPT !.phase = "done", !.updates = updates,
                    !.seq = upd.seq + 1,
                    !.outcome = [kind |-> "rejected", row |-> NoRow,
                                 message |-> "User not authenticated"]]
            ELSE [IdleUpd EXCEPT !.phase = "sent", !.uid = user.id,
                    !.updates = updates, !.seq = upd.seq + 1]
  /\ UNCHANGED <<liveVars, storeVars>>
  /\ UNCHANGED authVars

\* What the remote may answer to an update that it did not apply: an error
\* with or without a message, or the call throws an Error or something else.
UpdateFailures ==
  { [kind |-> "error", data |-> NoRow, message |-> "permission denied", isError |-> FALSE],
    [kind |-> "error", data |-> NoRow, message |-> "", isError |-> FALSE],
    [kind |-> "throw", data |-> NoRow, message |-> "Failed to fetch", isError |-> TRUE],
    [kind |-> "throw", data |-> NoRow, message |-> "", isError |-> TRUE],
    [kind |-> "throw", data |-> NoRow, message |-> "", isError |-> FALSE] }

\* The store applies the update to the row of upd.uid, returns the new row
\* and notifies the subscribers of that row.
UpdateApplied ==
  /\ hook = "stats"
  /\ upd.phase = "sent"
  /\ upd.uid \in channels => Len(events) < MaxEvents
  /\ LET new == ApplyUpdate(user_stats[upd.uid], upd.updates)
     IN /\ user_stats' = [user_stats EXCEPT ![upd.uid] = new]
        /\ events' = Emit(events, upd.uid, "UPDATE", new, upd.seq)
        /\ upd' = [upd EXCEPT !.phase = "replied", !.pre = user_stats[upd.uid],
                      !.res = [kind |-> "ok", data |-> new, message |-> "",
                               isError |-> FALSE]]
  /\ UNCHANGED <<hook, limit, user, dep, alive, loading, error, channels, inflight>>
  /\ UNCHANGED <<dataVars, user_activity, challenge_table>>
  /\ UNCHANGED authVars

\* The update is not applied: the remote reports an error, or the call throws.
UpdateRefused ==
  /\ hook = "stats"
  /\ upd.phase = "sent"
  /\ \E r \in UpdateFailures : upd' = [upd EXCEPT !.phase = "replied", !.res = r]
  /\ UNCHANGED <<liveVars, storeVars>>
  /\ UNCHANGED authVars

\* An updateStats that ignores the reported error and returns data (null).
UpdateOutcome_IgnoringError(res) ==
  CASE res.kind = "ok" -> [kind |-> "resolved", row |-> res.data, message |-> ""]
    [] res.kind = "error" -> [kind |-> "resolved", row |-> NoRow, message |-> ""]
    [] OTHER ->
         [kind |-> "rejected", row |-> NoRow,
          message |-> IF res.isError THEN res.message ELSE "Unknown error"]

\* The outcome of updateStats for an answer: `return data`, or the Error
\* thrown for a reported error or built in the catch block.
UpdateOutcome(res) ==
  CASE res.kind = "ok" -> [kind |-> "resolved", row |-> res.data, message |-> ""]
    [] res.kind = "error" ->
         [kind |-> "rejected", row |-> NoRow,
          message |-> IF res.message # "" THEN res.message ELSE "Failed to update stats"]
    [] OTHER ->
         [kind |-> "rejected", row |-> NoRow,
          message |-> IF res.isError THEN res.message ELSE "Unknown error"]

\* The await in updateStats completes and the promise settles.
UpdateStatsDone ==
  /\ hook = "stats"
  /\ upd.phase = "replied"
  /\ upd' = [upd EXCEPT !.phase = "done", !.outcome = UpdateOutcome(upd.res)]
  /\ UNCHANGED <<liveVars, storeVars>>
  /\ UNCHANGED authVars

\* ------------------------------------------------------------ AuthProvider
liveRest == <<hook, limit, dep, alive, loading, error, channels, events, inflight, dataVars>>
nonAuth == <<liveRest, storeVars, upd>>

\* `if (mounted) setUser(x)` and `if (mounted) setLoading(false)`.
SetUserIfMounted(x) == IF mounted THEN x ELSE user
\* A finally block that leaves loading as it is.
Finally_Skipped == authLoading

\* finally { if (mounted) setLoading(false); }
Finally == IF mounted THEN FALSE ELSE authLoading

\* How an awaited call of the remote auth service or of the store may end:
\* it succeeds, it returns an error, or it throws.
CallOutcomes == {"ok", "error", "throw"}

\* supabase.auth.signOut() ending with k: on success the session is gone and
\* the listener is told so.
\* A signOut with no session stored may or may not tell the listener
\* ("notified": it does).
SignOutOutcomes == CallOutcomes \cup {"notified"}
SignOutSession(k) == IF k \in {"ok", "notified"} THEN Null ELSE session
SignOutNotifies(k) == mounted /\ ((k = "ok" /\ session # Null) \/ k = "notified")
SignOutEvents(k) ==
  IF SignOutNotifies(k)
  THEN Append(authEvents, [event |-> "SIGNED_OUT", sid |-> Null])
  ELSE authEvents
SignOutFits(k) == SignOutNotifies(k) => Len(authEvents) < MaxAuthEvents

\* How getProfile may end: with the row ("ok"), with null (an error is
\* reported, or there is no row), or the query throws.
ProfileOutcomes == {"ok", "null", "throw"}

\* getProfile(id, email) for the outcomes that return.
GetProfile(id, email, k) == IF k = "ok" THEN AppUser(profiles[id], email) ELSE NoUser

\* The accounts this browser signs in to.
AuthUsers == {"u1"}

\* The session changes outside this client (another tab, the token timer)
\* and the listener is notified.
AuthEvents == {"SIGNED_IN", "TOKEN_REFRESHED", "TOKEN_REFRESH_FAILED", "SIGNED_OUT"}
SignOutKinds == {"TOKEN_REFRESH_FAILED", "SIGNED_OUT"}

AuthEvent(ev, u) ==
  /\ mounted
  /\ emitted < MaxAuthEvents
  /\ Len(authEvents) < MaxAuthEvents
  /\ ev # "SIGNED_IN" => (session # Null /\ u = session)
  /\ session' = IF ev = "SIGNED_OUT" THEN Null ELSE u
  /\ authEvents' = Append(authEvents,
                          [event |-> ev, sid |-> IF ev \in SignOutKinds THEN Null ELSE u])
  /\ emitted' = emitted + 1
  /\ UNCHANGED <<user, authLoading, mounted, handlers, init, op, profiles, cleared>>
  /\ UNCHANGED nonAuth

\* Another client (an administrator) flips the role column of u's profile.
RemoteProfileChange(u) ==
  /\ profiles[u].role = InitProfiles[u].role
  /\ profiles' = [profiles EXCEPT ![u].role = Flip(@)]
  /\ UNCHANGED <<user, authLoading, mounted, session, authEvents, handlers, init, op, cleared,
                 emitted>>
  /\ UNCHANGED nonAuth

\* The effect's cleanup: mounted = false; authListener.subscription.unsubscribe().
Teardown ==
  /\ mounted
  /\ mounted' = FALSE
  /\ authEvents' = <<>>
  /\ UNCHANGED <<user, authLoading, session, handlers, init, op, profiles, cleared, emitted>>
  /\ UNCHANGED nonAuth

\* A sign-out handler still awaiting its signOut is overtaken by an event
\* that carries a session (history).
MarkSuperseded(hs) ==
  [j \in 1 .. Len(hs) |->
     IF hs[j].pc = "signOut79" THEN [hs[j] EXCEPT !.superseded = TRUE] ELSE hs[j]]

\* handleAuthEvent(event, session) up to its first await, or to its end when
\* there is none (an event without a session that is not a sign-out).
AuthDeliver ==
  /\ authEvents # <<>>
  /\ authEvents' = Tail(authEvents)
  /\ LET e == Head(authEvents)
     IN IF e.event \in SignOutKinds
        THEN /\ Len(handlers) < MaxHandlers
             /\ handlers' = Append(handlers, [sid |-> e.sid, pc |-> "signOut79",
                                              superseded |-> FALSE])
             /\ UNCHANGED <<user, authLoading, cleared>>
        ELSE IF e.sid # Null
        THEN /\ Len(handlers) < MaxHandlers
             /\ handlers' = Append(MarkSuperseded(handlers),
                                   [sid |-> e.sid, pc |-> "getProfile88",
                                    superseded |-> FALSE])
             /\ cleared' = FALSE
             /\ UNCHANGED <<user, authLoading>>
        ELSE /\ user' = SetUserIfMounted(NoUser)
             /\ authLoading' = Finally
             /\ UNCHANGED <<handlers, cleared>>
  /\ UNCHANGED <<mounted, session, init, op, profiles, emitted>>
  /\ UNCHANGED nonAuth

\* The forced signOut of a sign-out event ends (its failure is swallowed):
\* if (mounted) setUser(null); return; finally.
HandlerSignOutDone(i, k) ==
  /\ i \in 1 .. Len(handlers)
  /\ handlers[i].pc = "signOut79"
  /\ SignOutFits(k)
  /\ session' = SignOutSession(k)
  /\ authEvents' = SignOutEvents(k)
  /\ user' = SetUserIfMounted(NoUser)
  /\ authLoading' = Finally
  /\ cleared' = IF mounted /\ ~handlers[i].superseded THEN TRUE ELSE cleared
  /\ handlers' = RemoveAt(handlers, i)
  /\ UNCHANGED <<mounted, init, op, profiles, emitted>>
  /\ UNCHANGED nonAuth

\* The getProfile of an event that carries a session ends with k.  When it
\* throws and the effect is still mounted, the catch block awaits signOut.
HandlerProfileDone(i, k) ==
  /\ i \in 1 .. Len(handlers)
  /\ handlers[i].pc = "getProfile88"
  /\ IF k = "throw"
     THEN /\ handlers' = IF mounted THEN [handlers EXCEPT ![i].pc = "signOut97"]
                         ELSE RemoveAt(handlers, i)
          /\ UNCHANGED <<user, authLoading>>
     ELSE /\ user' = SetUserIfMounted(
                       GetProfile(handlers[i].sid, EmailOf(handlers[i].sid), k))
          /\ authLoading' = Finally
          /\ handlers' = RemoveAt(handlers, i)
  /\ UNCHANGED <<mounted, session, authEvents, init, op, profiles, cleared, emitted>>
  /\ UNCHANGED nonAuth

\* The signOut of the catch block ends: setUser(null) without a second look
\* at mounted; finally.
HandlerCatchDone(i, k) ==
  /\ i \in 1 .. Len(handlers)
  /\ handlers[i].pc = "signOut97"
  /\ SignOutFits(k)
  /\ session' = SignOutSession(k)
  /\ authEvents' = SignOutEvents(k)
  /\ user' = NoUser
  /\ authLoading' = Finally
  /\ handlers' = RemoveAt(handlers, i)
  /\ UNCHANGED <<mounted, init, op, profiles, cleared, emitted>>
  /\ UNCHANGED nonAuth

\* ------------------------------------------------------------ getInitialSession
\* How supabase.auth.getSession() may end: with the stored session (or none),
\* with an error whose message names the refresh token, with another error,
\* or it throws.
SessionOutcomes == {"session", "refresh_error", "other_error", "throw"}

InitSessionDone(k) ==
  /\ init.pc = "getSession110"
  /\ CASE k = "session" /\ session # Null ->
            /\ init' = [pc |-> "getProfile118", sid |-> session]
            /\ UNCHANGED authLoading
       [] k = "refresh_error" ->
            /\ init' = [init EXCEPT !.pc = "signOut114"]
            /\ UNCHANGED authLoading
       [] k = "throw" ->
            /\ init' = [init EXCEPT !.pc = "signOut123"]
            /\ UNCHANGED authLoading
       [] OTHER ->
            /\ init' = [init EXCEPT !.pc = "done"]
            /\ authLoading' = Finally
  /\ UNCHANGED <<user, mounted, session, authEvents, handlers, op, profiles, cleared, emitted>>
  /\ UNCHANGED nonAuth

\* The getProfile of the restored session ends with k.
InitProfileDone(k) ==
  /\ init.pc = "getProfile118"
  /\ IF k = "throw"
     THEN /\ init' = [pc |-> "signOut123", sid |-> Null]
          /\ UNCHANGED <<user, authLoading>>
     ELSE /\ user' = SetUserIfMounted(GetProfile(init.sid, EmailOf(init.sid), k))
          /\ authLoading' = Finally
          /\ init' = [pc |-> "done", sid |-> Null]
  /\ UNCHANGED <<mounted, session, authEvents, handlers, op, profiles, cleared, emitted>>
  /\ UNCHANGED nonAuth

\* The signOut after a refresh-token error or in the catch block ends:
\* if (mounted) setUser(null); finally.
InitSignOutDone(k) ==
  /\ init.pc \in {"signOut114", "signOut123"}
  /\ SignOutFits(k)
  /\ session' = SignOutSession(k)
  /\ authEvents' = SignOutEvents(k)
  /\ user' = SetUserIfMounted(NoUser)
  /\ authLoading' = Finally
  /\ init' = [init EXCEPT !.pc = "done"]
  /\ UNCHANGED <<mounted, handlers, op, profiles, cleared, emitted>>
  /\ UNCHANGED nonAuth

\* ------------------------------------------------------------ context operations
\* One operation at a time is followed.
OpFree == op.pc \in {"idle", "done"} /\ op.calls < MaxOps
StartOp(name, pc) == [NoOp EXCEPT !.name = name, !.pc = pc, !.calls = op.calls + 1]
EndOp(outcome) ==
  [NoOp EXCEPT !.name = op.name, !.pc = "done", !.outcome = outcome, !.calls = op.calls]

\* signIn(email, password) with the credentials of u, up to its await.
SignInCall(u) ==
  /\ OpFree
  /\ op' = [StartOp("signIn", "await140") EXCEPT !.uid = u]
  /\ authLoading' = TRUE
  /\ UNCHANGED <<user, mounted, session, authEvents, handlers, init, profiles, cleared, emitted>>
  /\ UNCHANGED nonAuth

\* signInWithPassword ends with k; on success the session is that of u and
\* the listener is notified.
SignInDone(k) ==
  /\ op.name = "signIn" /\ op.pc = "await140"
  /\ (k = "ok" /\ mounted) => Len(authEvents) < MaxAuthEvents
  /\ session' = IF k = "ok" THEN op.uid ELSE session
  /\ authEvents' = IF k = "ok" /\ mounted
                   THEN Append(authEvents, [event |-> "SIGNED_IN", sid |-> op.uid])
                   ELSE authEvents
  /\ authLoading' = IF k = "throw" THEN authLoading ELSE FALSE
  /\ op' = [EndOp(IF k = "throw" THEN "rejected" ELSE "resolved")
              EXCEPT !.alerted = (k = "error")]
  /\ UNCHANGED <<user, mounted, handlers, init, profiles, cleared, emitted>>
  /\ UNCHANGED nonAuth

\* signUp(userData) up to its first await.
SignUpCall ==
  /\ OpFree
  /\ op' = StartOp("signUp", "await151")
  /\ authLoading' = TRUE
  /\ UNCHANGED <<user, mounted, session, authEvents, handlers, init, profiles, cleared, emitted>>
  /\ UNCHANGED nonAuth

\* auth.signUp ends with k: on success the 500 ms wait for the profile
\* trigger follows.
SignUpDone(k) ==
  /\ op.name = "signUp" /\ op.pc = "await151"
  /\ CASE k = "ok" -> op' = [op EXCEPT !.pc = "await168"] /\ UNCHANGED authLoading
       [] k = "error" -> op' = [EndOp("resolved") EXCEPT !.alerted = TRUE]
                         /\ authLoading' = FALSE
       [] OTHER -> op' = EndOp("rejected") /\ UNCHANGED authLoading
  /\ UNCHANGED <<user, mounted, session, authEvents, handlers, init, profiles, cleared, emitted>>
  /\ UNCHANGED nonAuth

SignUpWaitDone ==
  /\ op.name = "signUp" /\ op.pc = "await168"
  /\ op' = EndOp("resolved")
  /\ authLoading' = FALSE
  /\ UNCHANGED <<user, mounted, session, authEvents, handlers, init, profiles, cleared, emitted>>
  /\ UNCHANGED nonAuth

\* signOut() up to its await.
SignOutCall ==
  /\ OpFree
  /\ op' = StartOp("signOut", "await174")
  /\ UNCHANGED <<user, authLoading, mounted, session, authEvents, handlers, init, profiles,
                 cleared, emitted>>
  /\ UNCHANGED nonAuth

\* supabase.auth.signOut() ends with k; setUser(null) follows unless it threw.
SignOutDone(k) ==
  /\ op.name = "signOut" /\ op.pc = "await174"
  /\ SignOutFits(k)
  /\ session' = SignOutSession(k)
  /\ authEvents' = SignOutEvents(k)
  /\ user' = IF k = "throw" THEN user ELSE NoUser
  /\ op' = EndOp(IF k = "throw" THEN "rejected" ELSE "resolved")
  /\ UNCHANGED <<authLoading, mounted, handlers, init, profiles, cleared, emitted>>
  /\ UNCHANGED nonAuth

\* Partial profiles handed to updateUser.
ProfileUpdates == { [f \in {"name"} |-> "m"] }

\* The partial profile switchRole hands to updateUser.
SwitchData(u) ==
  [f \in {"role", "account_type"} |->
     IF f = "role" THEN Flip(u.role) ELSE Flip(u.account_type)]

\* updateUser(userData) up to its first await; without an identity it does
\* nothing.
UpdateUserOp(name, data) ==
  IF user.id = Null
  THEN [StartOp(name, "done") EXCEPT !.outcome = "resolved"]
  ELSE [StartOp(name, "await181") EXCEPT !.uid = user.id, !.email = user.email,
          !.data = data]

UpdateUserCall(data) ==
  /\ OpFree
  /\ op' = UpdateUserOp("updateUser", data)
  /\ UNCHANGED <<user, authLoading, mounted, session, authEvents, handlers, init, profiles,
                 cleared, emitted>>
  /\ UNCHANGED nonAuth

\* switchRole(): updateUser with both role columns flipped.
SwitchRoleCall ==
  /\ OpFree
  /\ op' = UpdateUserOp("switchRole", SwitchData(user))
  /\ UNCHANGED <<user, authLoading, mounted, session, authEvents, handlers, init, profiles,
                 cleared, emitted>>
  /\ UNCHANGED nonAuth

\* The UPDATE of profiles ends with k: a reported error is logged, otherwise
\* the profile is resolved again.
UpdateUserSent(k) ==
  /\ op.pc = "await181"
  /\ CASE k = "ok" ->
            /\ profiles' = [profiles EXCEPT ![op.uid] = ApplyUpdate(@, op.data)]
            /\ op' = [op EXCEPT !.pc = "getProfile190"]
       [] k = "error" -> op' = EndOp("resolved") /\ UNCHANGED profiles
       [] OTHER -> op' = EndOp("rejected") /\ UNCHANGED profiles
  /\ UNCHANGED <<user, authLoading, mounted, session, authEvents, handlers, init, cleared,
                 emitted>>
  /\ UNCHANGED nonAuth

\* An updateUser that merges the submitted partial into the local identity
\* instead of using the profile it re-read.
UpdateUserProfileDone_Merging(k) ==
  /\ op.pc = "getProfile190"
  /\ user' = IF k = "throw" THEN user
             ELSE IF k = "ok" THEN ApplyUpdate(user, op.data) ELSE NoUser
  /\ op' = EndOp(IF k = "throw" THEN "rejected" ELSE "resolved")
  /\ UNCHANGED <<authLoading, mounted, session, authEvents, handlers, init, profiles,
                 cleared, emitted>>
  /\ UNCHANGED nonAuth

\* The getProfile of updateUser ends with k: setUser(updatedUser), unless it
\* threw.
UpdateUserProfileDone(k) ==
  /\ op.pc = "getProfile190"
  /\ user' = IF k = "throw" THEN user ELSE GetProfile(op.uid, op.email, k)
  /\ op' = EndOp(IF k = "throw" THEN "rejected" ELSE "resolved")
  /\ UNCHANGED <<authLoading, mounted, session, authEvents, handlers, init, profiles,
                 cleared, emitted>>
  /\ UNCHANGED nonAuth

\* ------------------------------------------------------------ specifications
\* One LiveQuery instance under identity changes and remote changes.
Next ==
  \/ Unmount
  \/ \E i \in 1 .. MaxInflight : ServerReply(i)
  \/ \E u \in Users, w \in SampleChanges : RemoteChange(u, w)
  \/ \E u \in Users : InsertActivity(u)
  \/ \E c \in ChallengeIds : ChallengeChange(c)
  \/ \E u \in Users \cup {Null} : StatsEffect(u)
  \/ \E i \in 1 .. MaxInflight : StatsFetchDone(i)
  \/ StatsEvent
  \/ \E u \in Users \cup {Null} : ActivityEffect(u)
  \/ \E i \in 1 .. MaxInflight : ActivityFetchDone(i)
  \/ ActivityEvent
  \/ \E u \in Users \cup {Null} : ChallengesEffect(u)
  \/ \E i \in 1 .. MaxInflight : ChallengesFetchDone(i)
  \/ ChallengesEvent

Spec == Init /\ [][Next]_vars

\* useUserStats together with updateStats.
InitWriter ==
  /\ hook = "stats"
  /\ limit = 1
  /\ InitHook

NextWriter ==
  \/ \E i \in 1 .. MaxInflight : ServerReply(i)
  \/ \E u \in Users \cup {Null} : StatsEffect(u)
  \/ \E i \in 1 .. MaxInflight : StatsFetchDone(i)
  \/ StatsEvent
  \/ \E w \in SampleUpdates : UpdateStatsCall(w)
  \/ UpdateApplied
  \/ UpdateRefused
  \/ UpdateStatsDone

SpecWriter == InitWriter /\ [][NextWriter]_vars

\* The SessionManager from its mount on.
InitAuth ==
  /\ hook = "stats"
  /\ limit = 1
  /\ LiveAtMount
  /\ user = NoUser
  /\ authLoading = TRUE
  /\ mounted = TRUE
  /\ session \in AuthUsers \cup {Null}
  /\ authEvents \in {<<>>, <<[event |-> "INITIAL_SESSION", sid |-> session]>>}
  /\ handlers = <<>>
  /\ init = [pc |-> "getSession110", sid |-> Null]
  /\ op = NoOp
  /\ profiles = InitProfiles
  /\ cleared = FALSE
  /\ emitted = 0

NextAuth ==
  \/ \E ev \in AuthEvents, u \in AuthUsers : AuthEvent(ev, u)
  \/ \E u \in AuthUsers : RemoteProfileChange(u)
  \/ Teardown
  \/ AuthDeliver
  \/ \E i \in 1 .. MaxHandlers, k \in SignOutOutcomes : HandlerSignOutDone(i, k)
  \/ \E i \in 1 .. MaxHandlers, k \in ProfileOutcomes : HandlerProfileDone(i, k)
  \/ \E i \in 1 .. MaxHandlers, k \in SignOutOutcomes : HandlerCatchDone(i, k)
  \/ \E k \in SessionOutcomes : InitSessionDone(k)
  \/ \E k \in ProfileOutcomes : InitProfileDone(k)
  \/ \E k \in SignOutOutcomes : InitSignOutDone(k)
  \/ \E u \in AuthUsers : SignInCall(u)
  \/ \E k \in CallOutcomes : SignInDone(k)
  \/ SignUpCall
  \/ \E k \in CallOutcomes : SignUpDone(k)
  \/ SignUpWaitDone
  \/ SignOutCall
  \/ \E k \in SignOutOutcomes : SignOutDone(k)
  \/ \E d \in ProfileUpdates : UpdateUserCall(d)
  \/ SwitchRoleCall
  \/ \E k \in CallOutcomes : UpdateUserSent(k)
  \/ \E k \in ProfileOutcomes : UpdateUserProfileDone(k)

SpecAuth == InitAuth /\ [][NextAuth]_vars

\* The same, where every awaited remote call of getInitialSession and of the
\* handlers eventually returns or throws.
AwaitsEnd ==
  /\ WF_vars(\E k \in SessionOutcomes : InitSessionDone(k))
  /\ WF_vars(\E k \in ProfileOutcomes : InitProfileDone(k))
  /\ WF_vars(\E k \in SignOutOutcomes : InitSignOutDone(k))
  /\ WF_vars(\E i \in 1 .. MaxHandlers, k \in SignOutOutcomes : HandlerSignOutDone(i, k))
  /\ WF_vars(\E i \in 1 .. MaxHandlers, k \in ProfileOutcomes : HandlerProfileDone(i, k))
  /\ WF_vars(\E i \in 1 .. MaxHandlers, k \in SignOutOutcomes : HandlerCatchDone(i, k))

\* The auth client hands every queued notification to the callback.
Delivers == WF_vars(AuthDeliver)

SpecAuthFair == InitAuth /\ [][NextAuth]_vars /\ AwaitsEnd /\ Delivers

\* ------------------------------------------------------------ LiveQuery claims
\* The observed hook's data and the value it falls back to.
Data ==
  CASE hook = "stats" -> stats
    [] hook = "activity" -> activities
    [] OTHER -> challenges
DefaultData == IF hook = "stats" THEN ZeroStats ELSE <<>>

\* This step completes the await of query j.
Completed(j) == j \in 1 .. Len(inflight) /\ inflight' = RemoveAt(inflight, j)

\* C1: once the effect's teardown has run, the completion of a query that was
\* started before it changes neither data nor loading nor error.
C1_NoUpdateAfterTeardown ==
  [][\A j \in 1 .. Len(inflight) :
       (Completed(j) /\ ~inflight[j].live) => UNCHANGED <<Data, loading, error>>]_vars

\* C5: a query that returns an error or throws (its await ends before the
\* store's rows arrive) leaves the default data, loading = false and
\* error = null; error is null in every state.
C5_ReadErrorsSwallowed ==
  /\ [][\A j \in 1 .. Len(inflight) :
         (alive /\ Completed(j) /\ inflight[j].phase = "sent")
           => (Data' = DefaultData /\ loading' = FALSE /\ error' = Null)]_vars
  /\ [](error = Null)

\* C5 witness (useUserStats): the effect of the current identity has run, its
\* queries have completed and the default is shown.  No row of the store maps
\* to the default, so the last completion was a failed one.
C5_Witness ==
  /\ alive /\ user.id # Null /\ dep = user.id /\ inflight = <<>>
  /\ hook = "stats" /\ stats = ZeroStats /\ loading = FALSE /\ error = Null

\* C11: an insert event carrying x turns the list L of useUserActivity into
\* x followed by the first min(|L|, N - 1) items of L, and the list never
\* has more than N items, N being the configured cap.
C11_ActivityCapped ==
  /\ [][(alive /\ ActivityEvent)
         => activities' = <<Head(events).new>>
                            \o SubSeq(activities, 1, Min(Len(activities), limit - 1))]_vars
  /\ [](hook = "activity" => Len(activities) <= limit)

\* C12: every event delivered to useChallenges starts exactly one re-fetch,
\* for the current identity; every answer to a challenges query and the list
\* itself hold at most 3 items, all with status = active.
AtMostThreeActive(l) ==
  Len(l) <= 3 /\ \A i \in 1 .. Len(l) : l[i].status = "active"

C12_ChallengesRefetch ==
  /\ [][ChallengesEvent
         => /\ Len(inflight') = Len(inflight) + 1
            /\ \A j \in 1 .. Len(inflight) :
                 /\ inflight'[j].uid = inflight[j].uid
                 /\ inflight'[j].phase = inflight[j].phase
                 /\ inflight'[j].res = inflight[j].res
            /\ inflight'[Len(inflight')].uid = user.id
            /\ inflight'[Len(inflight')].phase = "sent"]_vars
  /\ [](hook = "challenges"
          => /\ AtMostThreeActive(challenges)
             /\ \A j \in 1 .. Len(inflight) :
                  inflight[j].phase = "replied" => AtMostThreeActive(inflight[j].res.data))

\* C12 witness: the list shows rows 2, 3 and the inserted row 4 after row 1
\* was completed; every event has been delivered and every re-fetch is done.
C12_Witness ==
  /\ hook = "challenges" /\ alive /\ events = <<>> /\ inflight = <<>>
  /\ Len(challenges) = 3 /\ challenges[1].id = 2 /\ challenges[3].id = ChallengeLimit + 1

\* C13: a LiveQuery instance holds at most one subscription, that of the
\* current identity; queued events belong to it (the previous subscription
\* is gone); without an identity there is no subscription, and every query
\* of a run not torn down is one for the current identity (none without one).
C13_OneSubscription ==
  /\ Cardinality(channels) <= 1
  /\ \A c \in channels : alive /\ c = user.id /\ c = dep
  /\ \A i \in 1 .. Len(events) : events[i].topic \in channels
  /\ user.id = Null => channels = {}
  /\ \A j \in 1 .. Len(inflight) :
       inflight[j].live => (inflight[j].uid = user.id /\ user.id # Null)

\* C13 witness: the identity changed from u1 to u2 while u1's query was
\* still in flight; the subscription is u2's.
C13_Witness ==
  /\ alive /\ user.id = "u2" /\ channels = {"u2"}
  /\ \E j \in 1 .. Len(inflight) : inflight[j].uid = "u1" /\ ~inflight[j].live
  /\ \E j \in 1 .. Len(inflight) : inflight[j].uid = "u2" /\ inflight[j].live

\* ------------------------------------------------------------ StatsWriter claims
\* The hook mirrors the identity the update was made for.
Mirrors == alive /\ dep = upd.uid /\ user.id = upd.uid

\* C2: after updateStats({followers: v}) has succeeded and its change event
\* has been delivered to useUserStats, stats.followers is v (the writer is
\* the only one to change the row here, so there is no newer value).
C2_RoundTrip ==
  (/\ upd.phase = "done" /\ upd.outcome.kind = "resolved"
   /\ "followers" \in DOMAIN upd.updates
   /\ upd.delivered /\ Mirrors)
  => stats.followers = upd.updates.followers

\* C6: a step that calls updateStats without an identity ends the call with
\* the error 'User not authenticated'; nothing is sent and no row changes.
C6_Unauthenticated ==
  [][(user.id = Null /\ upd'.seq # upd.seq)
       => /\ upd'.phase = "done"
          /\ upd'.outcome.kind = "rejected"
          /\ upd'.outcome.message = "User not authenticated"
          /\ user_stats' = user_stats]_vars

C6_Witness ==
  /\ user.id = Null /\ upd.phase = "done" /\ upd.uid = Null
  /\ upd.outcome.message = "User not authenticated"
  /\ user_stats = InitStatsTable

\* C7: a settled updateStats call made with an identity resolved exactly when
\* the store applied the update, and then with the store's new row of that
\* identity; otherwise it rejected, with the remote's message when there is
\* one and a stand-in message when a reported error has none.
C7_WriteOutcome ==
  (upd.phase = "done" /\ upd.uid # Null)
  => /\ upd.outcome.kind \in {"resolved", "rejected"}
     /\ (upd.outcome.kind = "resolved") <=> (upd.res.kind = "ok")
     /\ upd.outcome.kind = "resolved"
          => /\ upd.outcome.row = ApplyUpdate(upd.pre, upd.updates)
             /\ upd.outcome.row.user_id = upd.uid
     /\ upd.outcome.kind = "rejected"
          => /\ upd.res.message # "" => upd.outcome.message = upd.res.message
             /\ (upd.res.kind = "error" \/ ~upd.res.isError) => upd.outcome.message # ""

C7_Witness ==
  /\ upd.phase = "done" /\ upd.uid # Null
  /\ upd.res.kind = "error" /\ upd.res.message = ""
  /\ upd.outcome.kind = "rejected" /\ upd.outcome.message = "Failed to update stats"

StoreRows == {InitStatsTable[u] : u \in Users} \cup {user_stats[u] : u \in Users}

C3_SignedOutStaysNull == cleared => user.id = Null

\* C4: a profile resolution that fails (null or a throw) while handling an
\* auth event, restoring the initial session or re-resolving in updateUser
\* leaves the identity null when the routine ends.
C4_FailedResolutionClears ==
  [][/\ \A i \in 1 .. Len(handlers) :
          (mounted /\ HandlerProfileDone(i, "null")) => user'.id = Null
     /\ \A i \in 1 .. Len(handlers), k \in SignOutOutcomes :
          (mounted /\ HandlerCatchDone(i, k)) => user'.id = Null
     /\ (mounted /\ InitProfileDone("null")) => user'.id = Null
     /\ \A k \in SignOutOutcomes :
          (mounted /\ init.pc = "signOut123" /\ InitSignOutDone(k)) => user'.id = Null
     /\ \A k \in {"null", "throw"} : UpdateUserProfileDone(k) => user'.id = Null]_vars

\* C8: the step that ends signOut() leaves the identity null, whether the
\* remote signOut succeeded, returned an error or threw.
C8_SignOutClears ==
  [][\A k \in SignOutOutcomes : SignOutDone(k) => user'.id = Null]_vars

\* C9: a failed remote sign-in ends signIn with the error as the outcome of
\* the call, the identity unchanged and loading = false; no step of signIn
\* changes the identity.
C9_SignInFailureSurfaced ==
  [][/\ \A k \in {"error", "throw"} :
          SignInDone(k) => /\ op'.outcome = "rejected"
                           /\ user' = user
                           /\ authLoading' = FALSE
     /\ ((\E u \in AuthUsers : SignInCall(u)) \/ (\E k \in CallOutcomes : SignInDone(k)))
          => user' = user]_vars

\* C14: updateUser without an identity sends nothing and changes nothing;
\* with one it updates only the profiles row of that identity; a reported
\* error (or a throw) of the update leaves the identity as it is; after a
\* successful update the identity is set to what the re-read of that row
\* returns: the row as the store holds it (with the e-mail), or null when
\* the re-read returns no profile.
C14_UpdateUser ==
  [][/\ \A d \in ProfileUpdates :
          UpdateUserCall(d)
            => /\ user' = user /\ profiles' = profiles
               /\ IF user.id = Null THEN op'.pc = "done" /\ op'.uid = Null
                  ELSE op'.pc = "await181" /\ op'.uid = user.id
     /\ \A k \in CallOutcomes :
          UpdateUserSent(k)
            => /\ user' = user
               /\ \A v \in Users \ {op.uid} : profiles'[v] = profiles[v]
               /\ profiles'[op.uid] =
                    IF k = "ok" THEN ApplyUpdate(profiles[op.uid], op.data)
                    ELSE profiles[op.uid]
               /\ k # "ok" => op'.pc = "done"
     /\ \A k \in {"ok", "null"} :
          UpdateUserProfileDone(k)
            => user' = IF k = "ok" THEN AppUser(profiles[op.uid], op.email) ELSE NoUser]_vars

\* C14 witness: updateUser({name}) has resolved and the identity shows the
\* new name together with a role that only the store knew.
C14_Witness ==
  /\ op.name = "updateUser" /\ op.pc = "done" /\ op.outcome = "resolved"
  /\ user.id # Null /\ user.name = "m"
  /\ user.role = profiles[user.id].role /\ user.role # InitProfiles[user.id].role

\* C15: the update switchRole submits sets role and account_type to the
\* same value, the opposite of the current role; without an identity
\* switchRole does nothing.
C15_SwitchRoleCoupled ==
  [][SwitchRoleCall
       => IF user.id = Null
          THEN op'.pc = "done" /\ profiles' = profiles /\ user' = user
          ELSE /\ op'.pc = "await181"
               /\ op'.data.role = Flip(user.role)
               /\ op'.data.account_type = op'.data.role]_vars

\* C16: after the teardown of AuthProvider's effect (mounted = false), a
\* step that continues or ends a handleAuthEvent invocation or
\* getInitialSession changes neither user nor loading.
C16_NoUpdateAfterUnmount ==
  [][(~mounted /\ (handlers' # handlers \/ init' # init))
       => (user' = user /\ authLoading' = authLoading)]_vars

\* C17: while the provider is mounted, whichever of getInitialSession and an
\* auth-event handler ends leaves the identity it determined: the profile it
\* resolved, and null when it found no session, no profile or an error.  So
\* the one that ends last decides the identity.
C17_LastCompletionWins ==
  [][mounted
       => /\ (init.pc # "done" /\ init'.pc = "done")
               => user' = IF InitProfileDone("ok")
                          THEN AppUser(profiles[init.sid], EmailOf(init.sid))
                          ELSE NoUser
          /\ \A i \in 1 .. Len(handlers) :
               handlers' = RemoveAt(handlers, i)
                 => user' = IF HandlerProfileDone(i, "ok")
                            THEN AppUser(profiles[handlers[i].sid], EmailOf(handlers[i].sid))
                            ELSE NoUser
          /\ (AuthDeliver /\ handlers' = handlers) => user' = NoUser]_vars

\* C18: within one instance the events are applied in delivery order.  The
\* callback of useUserStats leaves the delivered row in stats, and the
\* callback of useChallenges starts one re-fetch; when the last pending work
\* of the instance is the completion of a query that was issued before a
\* delivered event (the initial fetch or an earlier re-fetch completing
\* late), that completion does not replace the data.
C18_EventsInOrder ==
  /\ [][(alive /\ StatsEvent) => stats' = FillStats(Head(events).new)]_vars
  /\ [][\A j \in 1 .. Len(inflight) :
         (/\ hook \in {"stats", "challenges"}
          /\ alive /\ Completed(j)
          /\ inflight[j].overtaken
          /\ events = <<>> /\ inflight' = <<>>)
           => Data' = Data]_vars

\* C19: the provider leaves its initial loading state: unless it is torn
\* down, loading is eventually false.  A restore that ends without a
\* resolved profile (no session, any error, a thrown call) leaves the
\* identity null unless a handler has set one: a null identity is replaced
\* only by the resolved profile of the restore or of a handler's event, or by
\* the re-read of an updateUser (which was called with an identity).
C19_LeavesInitializing ==
  /\ <>(~mounted \/ ~authLoading)
  /\ [][(mounted /\ init.pc # "done" /\ init'.pc = "done" /\ ~InitProfileDone("ok")
           /\ user.id = Null)
          => user'.id = Null]_vars
  /\ [][(user.id = Null /\ user'.id # Null)
          => \/ InitProfileDone("ok")
             \/ \E i \in 1 .. Len(handlers) : HandlerProfileDone(i, "ok")
             \/ UpdateUserProfileDone("ok")]_vars

\* The restore has ended with a session stored and no identity: loading is
\* false and the identity null.
C19_Witness ==
  /\ mounted /\ init.pc = "done" /\ ~authLoading
  /\ session # Null /\ user.id = Null
  /\ handlers = <<>> /\ authEvents = <<>> /\ emitted = 0 /\ op = NoOp

\* The hook's data holds rows of identity u (the rows of user_stats are told
\* apart by portfolio_views, which no modelled change touches).
HoldsRowsOf(u) ==
  IF hook = "stats"
  THEN stats.portfolio_views = InitStatsTable[u].portfolio_views
  ELSE \E i \in 1 .. Len(Data) : Data[i].user_id = u

\* C20: while the consumer is mounted and the effect has run, the data never
\* holds rows of an identity other than the current one, whether left over
\* from before an identity change or written by a late fetch; with
\* loading = false it is the default or rows of the current identity.
C20_DataIsolation ==
  (alive /\ dep # "unset")
    => /\ \A u \in Users : HoldsRowsOf(u) => u = user.id
       /\ ~loading => (Data = DefaultData \/ \E u \in Users : HoldsRowsOf(u))

\* C21: the activity list of useUserActivity never holds two items with the
\* same id, however the initial fetch and the insert events interleave.
C21_NoDuplicateActivity ==
  hook = "activity"
    => \A i, j \in 1 .. Len(activities) :
         activities[i].id = activities[j].id => i = j

\* C22: the handling of a SIGNED_OUT or TOKEN_REFRESH_FAILED event ends: once
\* a handler has started its forced signOut, the provider (unless torn down)
\* reaches a state with no handler running and no notification queued.
C22_SignOutHandlingEnds ==
  (\E i \in 1 .. Len(handlers) : handlers[i].pc = "signOut79")
    ~> (~mounted \/ (handlers = <<>> /\ authEvents = <<>>))
====
